---- MODULE Spec2Model ----
(***************************************************************************)
(* Password Entropy Evaluation API: the evaluation engine                  *)
(* (services/services.py), the corpus store with its memoised membership   *)
(* predicate (database/database.py) and the application lifecycle and      *)
(* endpoint (main.py).                                                     *)
(*                                                                         *)
(* Number representation.  Entropies are floats in the program; here an    *)
(* entropy is an integer number of micro-bits (10^-6 bit), so that the     *)
(* two-decimal values calculate_entropy returns are the multiples of 10^4. *)
(* Durations span 10^-12 .. 10^300 seconds, so a duration is carried as    *)
(* its base-2 logarithm in micro-bits: 2**E becomes E, a product a sum, a  *)
(* quotient a difference, and x < T becomes lg(x) < lg(T), which is the    *)
(* same comparison because lg is strictly increasing.                      *)
(***************************************************************************)
EXTENDS Integers, Sequences, FiniteSets, TLC

VARIABLES
    phase,          \* lifecycle of the application: "init", "serving", "failed", "stopped"
    startup_error,  \* the exception lifespan raised at startup, "" when none
    DB_CONNECTION,  \* database.py global: "None", "open" or "closed"
    cache,          \* lru_cache of is_common_password: entries, least recently used first
    hits,           \* lru_cache hit counter
    misses,         \* lru_cache miss counter
    last,           \* <<>> or <<r>>: the outcome of the latest request
    used,           \* history: the arguments is_common_password was called with,
                    \* each once, in the order of their latest call (latest last)
    call,           \* a direct call of one pure function of services.py: its argument
    ret             \* <<>> or <<r>>: what that call returned

vars == <<phase, startup_error, DB_CONNECTION, cache, hits, misses, last, used, call, ret>>

(***************************************************************************)
(* Bounds of the model.                                                    *)
(***************************************************************************)
\* longest string handed directly to calculate_N / calculate_entropy
MaxLen == 3
\* direct calls of get_strength_category / calculate_crack_time take the
\* entropies b, b+0.01, b+0.5 and b+0.99 bits for every whole b up to MaxBits
MaxBits == 110
\* a request word is submitted with its first 0..MaxUpper letters upper-cased
MaxUpper == 1
\* capacity of the membership cache in the model (the program's is 10000)
maxsize == 2
\* calls of is_common_password in one run (caps the hit and miss counters)
MaxCalls == 4

Micro == 10^6
Centi == 10^4

(***************************************************************************)
(* Characters and strings.  A string is a sequence of characters; a        *)
(* character is one of the tokens below, classified as Python's str        *)
(* methods classify the code point it stands for.                          *)
(***************************************************************************)
LowerLetters == <<"a", "b", "p", "s">>
UpperLetters == <<"A", "B", "P", "S">>
DigitChars == {"1", "2", "3", "4"}
SymbolChars == {"!", " "}
\* an alphabetic code point without case (U+4E2D): isalnum() holds, islower()
\* and isupper() do not
CaselessLetters == {"U4E2D"}

islower(c) == \E i \in 1..Len(LowerLetters) : LowerLetters[i] = c
isupper(c) == \E i \in 1..Len(UpperLetters) : UpperLetters[i] = c
isdigit(c) == c \in DigitChars
isalnum(c) == islower(c) \/ isupper(c) \/ isdigit(c) \/ c \in CaselessLetters

\* str.lower() and str.upper(), character by character
lower_char(c) ==
    IF isupper(c)
    THEN LowerLetters[CHOOSE i \in 1..Len(UpperLetters) : UpperLetters[i] = c]
    ELSE c
upper_char(c) ==
    IF islower(c)
    THEN UpperLetters[CHOOSE i \in 1..Len(LowerLetters) : LowerLetters[i] = c]
    ELSE c
lower(s) == [i \in 1..Len(s) |-> lower_char(s[i])]

(***************************************************************************)
(* math.log2 on the integers the program takes it of, in micro-bits        *)
(* (rounded to the nearest micro-bit).  With this table L * log2(N)        *)
(* rounds to the two decimals the program's float arithmetic gives for     *)
(* every length below 41, and every two-decimal entropy below 1024 bits    *)
(* falls in the crack-time band the program's float arithmetic puts it in. *)
(* Labels and units are spelled without accents ("Debil", "dias",          *)
(* "anios").                                                               *)
(***************************************************************************)
log2(n) ==
    CASE n = 1 -> 0
      [] n = 2 -> 1000000
      [] n = 10 -> 3321928
      [] n = 26 -> 4700440
      [] n = 32 -> 5000000
      [] n = 36 -> 5169925
      [] n = 42 -> 5392317
      [] n = 52 -> 5700440
      [] n = 58 -> 5857981
      [] n = 62 -> 5954196
      [] n = 68 -> 6087463
      [] n = 84 -> 6392317
      [] n = 94 -> 6554589
      [] n = 60 -> 5906891
      [] n = 1000 -> 9965784
      [] n = 3600 -> 11813781
      [] n = 86400 -> 16398744
      [] n = 31536000 -> 24910496

\* round(x, 2) of a non-negative x given in micro-bits
round2(x) == ((x + (Centi \div 2)) \div Centi) * Centi

(***************************************************************************)
(* services.py: composition and entropy                                    *)
(***************************************************************************)
calculate_L(password) == Len(password)

has_lowercase(password) == \E i \in 1..Len(password) : islower(password[i])
has_uppercase(password) == \E i \in 1..Len(password) : isupper(password[i])
has_digits(password) == \E i \in 1..Len(password) : isdigit(password[i])
has_symbols(password) == \E i \in 1..Len(password) : ~isalnum(password[i])

\* calculate_N without the default of its last line (a keyspace of 0 is returned)
calculate_N_no_default(password) ==
    (IF has_lowercase(password) THEN 26 ELSE 0)
    + (IF has_uppercase(password) THEN 26 ELSE 0)
    + (IF has_digits(password) THEN 10 ELSE 0)
    + (IF has_symbols(password) THEN 32 ELSE 0)

calculate_N(password) ==
    LET keyspace == (IF has_lowercase(password) THEN 26 ELSE 0)
                  + (IF has_uppercase(password) THEN 26 ELSE 0)
                  + (IF has_digits(password) THEN 10 ELSE 0)
                  + (IF has_symbols(password) THEN 32 ELSE 0)
    IN  IF keyspace > 0 THEN keyspace ELSE 1

\* E = L * log2(N), rounded to two decimals; 0.0 when L = 0 or N = 0
calculate_entropy(password) ==
    LET L == calculate_L(password)
        N == calculate_N(password)
    IN  IF L = 0 \/ N = 0 THEN 0
        ELSE round2(L * log2(N))

analyze_composition(password) ==
    [length |-> calculate_L(password),
     has_lowercase |-> has_lowercase(password),
     has_uppercase |-> has_uppercase(password),
     has_digits |-> has_digits(password),
     has_symbols |-> has_symbols(password),
     keyspace |-> calculate_N(password)]

(***************************************************************************)
(* services.py: crack time                                                 *)
(***************************************************************************)
\* lg(attempts_per_second), attempts_per_second = 10**11
lg_attempts_per_second == 11 * log2(10)

\* 2**entropy is a float power: it raises OverflowError from 2**1024.0 on
pow_overflows(entropy) == entropy >= 1024 * Micro

\* lines 116-117: lg of seconds = 2**entropy / (2 * attempts_per_second)
crack_seconds(entropy) ==
    LET total_combinations == entropy
    IN  total_combinations - (log2(2) + lg_attempts_per_second)

\* lines 120-133 with every "<" read as "<="
crack_unit_inclusive(seconds) ==
    IF seconds <= 0
    THEN [value |-> seconds + log2(1000), unit |-> "milisegundos"]
    ELSE IF seconds <= log2(60)
    THEN [value |-> seconds, unit |-> "segundos"]
    ELSE IF seconds <= log2(3600)
    THEN [value |-> seconds - log2(60), unit |-> "minutos"]
    ELSE IF seconds <= log2(86400)
    THEN [value |-> seconds - log2(3600), unit |-> "horas"]
    ELSE IF seconds <= log2(31536000)
    THEN [value |-> seconds - log2(86400), unit |-> "dias"]
    ELSE IF seconds <= log2(31536000) + log2(1000)
    THEN [value |-> seconds - log2(31536000), unit |-> "anios"]
    ELSE [value |-> seconds - (log2(31536000) + log2(1000)), unit |-> "milenios"]

\* lines 120-133: the unit and the value (its lg, before round(., 2)) for a
\* duration given by the lg of its seconds; 31536000000 = 31536000 * 1000
crack_unit(seconds) ==
    IF seconds < 0
    THEN [value |-> seconds + log2(1000), unit |-> "milisegundos"]
    ELSE IF seconds < log2(60)
    THEN [value |-> seconds, unit |-> "segundos"]
    ELSE IF seconds < log2(3600)
    THEN [value |-> seconds - log2(60), unit |-> "minutos"]
    ELSE IF seconds < log2(86400)
    THEN [value |-> seconds - log2(3600), unit |-> "horas"]
    ELSE IF seconds < log2(31536000)
    THEN [value |-> seconds - log2(86400), unit |-> "dias"]
    ELSE IF seconds < log2(31536000) + log2(1000)
    THEN [value |-> seconds - log2(31536000), unit |-> "anios"]
    ELSE [value |-> seconds - (log2(31536000) + log2(1000)), unit |-> "milenios"]

\* the CrackTime returned, or the exception raised
calculate_crack_time(entropy) ==
    IF pow_overflows(entropy)
    THEN [raised |-> "OverflowError", value |-> 0, unit |-> ""]
    ELSE [raised |-> ""] @@ crack_unit(crack_seconds(entropy))

(***************************************************************************)
(* services.py: strength category                                          *)
(***************************************************************************)
\* get_strength_category with "<=" for "<"
get_strength_category_inclusive(entropy) ==
    IF entropy <= 40 * Micro
    THEN [strength |-> "Muy Debil", score |-> 1, recommendation |-> "aumenta"]
    ELSE IF entropy <= 60 * Micro
    THEN [strength |-> "Debil", score |-> 2, recommendation |-> "considera"]
    ELSE IF entropy <= 80 * Micro
    THEN [strength |-> "Aceptable", score |-> 3, recommendation |-> "razonable"]
    ELSE IF entropy <= 100 * Micro
    THEN [strength |-> "Fuerte", score |-> 4, recommendation |-> "buena"]
    ELSE [strength |-> "Muy Fuerte", score |-> 5, recommendation |-> "excelente"]

\* (strength, score, recommendation); a recommendation is named by its first word
get_strength_category(entropy) ==
    IF entropy < 40 * Micro
    THEN [strength |-> "Muy Debil", score |-> 1, recommendation |-> "aumenta"]
    ELSE IF entropy < 60 * Micro
    THEN [strength |-> "Debil", score |-> 2, recommendation |-> "considera"]
    ELSE IF entropy < 80 * Micro
    THEN [strength |-> "Aceptable", score |-> 3, recommendation |-> "razonable"]
    ELSE IF entropy < 100 * Micro
    THEN [strength |-> "Fuerte", score |-> 4, recommendation |-> "buena"]
    ELSE [strength |-> "Muy Fuerte", score |-> 5, recommendation |-> "excelente"]

(***************************************************************************)
(* database.py: the corpus store and the memoised membership predicate     *)
(***************************************************************************)
\* rows of the table passwords(password_lower, rank) of passwords.db
Corpus ==
    {[password_lower |-> <<"p", "a", "s", "s", "1", "2", "3", "4">>, rank |-> 7],
     [password_lower |-> <<"a", "b", "b", "a">>, rank |-> 21]}

\* SELECT 1 FROM passwords WHERE password_lower = ? LIMIT 1 ... fetchone() is not None
select_exists(key) == \E row \in Corpus : row.password_lower = key

\* SELECT rank FROM passwords WHERE password_lower = ? ... fetchone():
\* <<rank>> for a row, <<>> for None
select_rank(key) ==
    IF \E row \in Corpus : row.password_lower = key
    THEN <<(CHOOSE row \in Corpus : row.password_lower = key).rank>>
    ELSE <<>>

\* init_database() under each state of the database file: the value returned
\* and the DB_CONNECTION left behind
init_database(file) ==
    CASE file = "missing" -> [ok |-> FALSE, DB_CONNECTION |-> "None"]
      [] file = "connect_error" -> [ok |-> FALSE, DB_CONNECTION |-> "None"]
      [] file = "count_error" -> [ok |-> FALSE, DB_CONNECTION |-> "open"]
      [] file = "ready" -> [ok |-> TRUE, DB_CONNECTION |-> "open"]

close_database(conn) == IF conn # "None" THEN "closed" ELSE conn

\* the body of is_common_password (what lru_cache calls on a miss):
\* read_ok is whether cursor.execute / fetchone ran without raising
is_common_password_body(password, conn, read_ok) ==
    IF conn = "None" THEN FALSE
    ELSE IF conn = "open" /\ read_ok THEN select_exists(lower(password))
    ELSE FALSE

get_password_rank(password, conn, read_ok) ==
    IF conn = "None" THEN <<>>
    ELSE IF conn = "open" /\ read_ok THEN select_rank(lower(password))
    ELSE <<>>

\* @lru_cache(maxsize): the key is the argument as passed
cache_key(password) == password

CacheKeys(c) == {c[i].key : i \in 1..Len(c)}
CacheIndex(c, key) == CHOOSE i \in 1..Len(c) : c[i].key = key
Without(c, i) == [j \in 1..(Len(c) - 1) |-> IF j < i THEN c[j] ELSE c[j + 1]]

\* is_common_password behind a cache that does not count a hit as a use: the
\* entry stays where its fill put it, so the oldest fill is evicted
is_common_password_fifo(password, c, h, m, conn, read_ok) ==
    LET key == cache_key(password)
    IN  IF key \in CacheKeys(c)
        THEN [result |-> c[CacheIndex(c, key)].value,
              cache |-> c,
              hits |-> h + 1,
              misses |-> m,
              read |-> "cached"]
        ELSE LET result == is_common_password_body(password, conn, read_ok)
                 kept == IF Len(c) >= maxsize THEN Without(c, 1) ELSE c
             IN  [result |-> result,
                  cache |-> Append(kept, [key |-> key, value |-> result]),
                  hits |-> h,
                  misses |-> m + 1,
                  read |-> IF conn = "open" /\ read_ok THEN "ok"
                           ELSE IF conn = "None" THEN "unavailable"
                           ELSE "failed"]

\* one call of the memoised is_common_password: the value returned, the cache
\* and the counters afterwards, and where the value came from
is_common_password(password, c, h, m, conn, read_ok) ==
    LET key == cache_key(password)
    IN  IF key \in CacheKeys(c)
        THEN LET i == CacheIndex(c, key)
             IN  [result |-> c[i].value,
                  cache |-> Append(Without(c, i), c[i]),
                  hits |-> h + 1,
                  misses |-> m,
                  read |-> "cached"]
        ELSE LET result == is_common_password_body(password, conn, read_ok)
                 kept == IF Len(c) >= maxsize THEN Without(c, 1) ELSE c
             IN  [result |-> result,
                  cache |-> Append(kept, [key |-> key, value |-> result]),
                  hits |-> h,
                  misses |-> m + 1,
                  read |-> IF conn = "open" /\ read_ok THEN "ok"
                           ELSE IF conn = "None" THEN "unavailable"
                           ELSE "failed"]

get_cache_info(c, h, m) ==
    [hits |-> h, misses |-> m, size |-> Len(c), maxsize |-> maxsize]

(***************************************************************************)
(* services.py: evaluate_password                                          *)
(***************************************************************************)
NoEvaluation ==
    [strength |-> "", score |-> 0, entropy |-> 0, is_common |-> FALSE, rank |-> <<>>,
     crack_time |-> [raised |-> "", value |-> 0, unit |-> ""],
     composition |-> analyze_composition(<<>>), recommendation |-> ""]

\* the PasswordEvaluation built from the answers of the two lookups, or the
\* exception raised on the way: format(None, ",") in the recommendation is a
\* TypeError, 2**entropy_adjusted may be an OverflowError
evaluate_password(password, is_common, rank_lookup) ==
    LET entropy == calculate_entropy(password)
        rank == IF is_common THEN rank_lookup ELSE <<>>
        category == get_strength_category(entropy)
        entropy_adjusted == IF is_common THEN 0 ELSE entropy
        crack_time == calculate_crack_time(entropy_adjusted)
    IN  IF is_common /\ rank = <<>>
        THEN [raised |-> "TypeError", evaluation |-> NoEvaluation]
        ELSE IF crack_time.raised # ""
        THEN [raised |-> crack_time.raised, evaluation |-> NoEvaluation]
        ELSE [raised |-> "",
              evaluation |->
                [strength |-> IF is_common THEN "Muy Debil (En Diccionario)"
                              ELSE category.strength,
                 score |-> IF is_common THEN 0 ELSE category.score,
                 entropy |-> entropy_adjusted,
                 is_common |-> is_common,
                 rank |-> rank,
                 crack_time |-> crack_time,
                 composition |-> analyze_composition(password),
                 recommendation |-> IF is_common THEN "puesto"
                                    ELSE category.recommendation]]

(***************************************************************************)
(* main.py: lifespan and the endpoint                                      *)
(***************************************************************************)
\* lifespan without its raise: the failed start is printed and requests are served
lifespan_startup_no_raise(init_ok) ==
    [phase |-> "serving", startup_error |-> ""]

\* the startup half of lifespan, given what init_database returned
lifespan_startup(init_ok) ==
    IF ~init_ok
    THEN [phase |-> "failed", startup_error |-> "RuntimeError"]
    ELSE [phase |-> "serving", startup_error |-> ""]

\* PasswordRequest: min_length = 1, max_length = 128
valid_request(password) == Len(password) >= 1 /\ Len(password) <= 128

UpperPrefix(w, k) == [i \in 1..Len(w) |-> IF i <= k THEN upper_char(w[i]) ELSE w[i]]

RequestWords ==
    {<<"p", "a", "s", "s", "1", "2", "3", "4">>, <<"b", "a", "!", "4">>}

Requests == {UpperPrefix(w, k) : w \in RequestWords, k \in 0..MaxUpper} \cup {<<>>}

DatabaseFiles == {"missing", "connect_error", "count_error", "ready"}

NoCall == [fn |-> "", password |-> <<>>, entropy |-> 0]

ServerVarsInit ==
    /\ phase = "init"
    /\ startup_error = ""
    /\ DB_CONNECTION = "None"
    /\ cache = <<>>
    /\ hits = 0
    /\ misses = 0
    /\ last = <<>>
    /\ used = <<>>

ServerVars == <<phase, startup_error, DB_CONNECTION, cache, hits, misses, last, used>>

Init ==
    /\ ServerVarsInit
    /\ call = NoCall
    /\ ret = <<>>

\* uvicorn enters lifespan: init_database(), then serve or raise
Startup ==
    /\ phase = "init"
    /\ \E file \in DatabaseFiles :
          LET db == init_database(file)
              up == lifespan_startup(db.ok)
          IN  /\ DB_CONNECTION' = db.DB_CONNECTION
              /\ phase' = up.phase
              /\ startup_error' = up.startup_error
    /\ UNCHANGED <<cache, hits, misses, last, used, call, ret>>

\* a request body that fails PasswordRequest's validation never reaches the endpoint
RejectRequest ==
    /\ phase = "serving"
    /\ \E password \in Requests :
          /\ ~valid_request(password)
          /\ last' = <<[password |-> password, status |-> 422, raised |-> "",
                        evaluation |-> NoEvaluation, conn |-> DB_CONNECTION,
                        member |-> FALSE, member_read |-> "none",
                        rank_read |-> "none"]>>
    /\ UNCHANGED <<phase, startup_error, DB_CONNECTION, cache, hits, misses, used, call, ret>>

\* POST /api/v1/password/evaluate: evaluate_password_endpoint, with the two
\* store reads of the request succeeding or raising
Evaluate ==
    /\ phase = "serving"
    /\ hits + misses < MaxCalls
    /\ \E password \in Requests, member_ok \in BOOLEAN, rank_ok \in BOOLEAN :
          /\ valid_request(password)
          /\ LET member == is_common_password(password, cache, hits, misses,
                                               DB_CONNECTION, member_ok)
                  rank == get_password_rank(password, DB_CONNECTION, rank_ok)
                  out == evaluate_password(password, member.result, rank)
             IN  /\ cache' = member.cache
                 /\ hits' = member.hits
                 /\ misses' = member.misses
                 /\ used' = Append(SelectSeq(used, LAMBDA k : k # password), password)
                 /\ last' = <<[password |-> password,
                               status |-> IF out.raised = "" THEN 200 ELSE 500,
                               raised |-> out.raised,
                               evaluation |-> out.evaluation,
                               conn |-> DB_CONNECTION,
                               member |-> member.result,
                               member_read |-> member.read,
                               rank_read |-> IF ~member.result THEN "none"
                                             ELSE IF rank_ok THEN "ok" ELSE "failed"]>>
    /\ UNCHANGED <<phase, startup_error, DB_CONNECTION, call, ret>>

\* the shutdown half of lifespan
Shutdown ==
    /\ phase = "serving"
    /\ phase' = "stopped"
    /\ DB_CONNECTION' = close_database(DB_CONNECTION)
    /\ UNCHANGED <<startup_error, cache, hits, misses, last, used, call, ret>>

Next == Startup \/ RejectRequest \/ Evaluate \/ Shutdown

Spec == Init /\ [][Next]_vars

(***************************************************************************)
(* Direct calls of the pure functions of services.py.  The argument is     *)
(* drawn when the run starts; the call returns once.                       *)
(***************************************************************************)
CompositionChars == {"a", "A", "1", "!", "U4E2D"}

RECURSIVE StringsUpTo(_)
StringsUpTo(n) ==
    IF n = 0 THEN {<<>>}
    ELSE LET shorter == StringsUpTo(n - 1)
         IN  shorter \cup {Append(s, c) : s \in {t \in shorter : Len(t) = n - 1},
                                          c \in CompositionChars}

CompositionInputs == StringsUpTo(MaxLen)

\* the entropies at which a crack-time band starts, and the micro-bit on each side
BandStarts ==
    {log2(2) + lg_attempts_per_second + t + d :
        t \in {0, log2(60), log2(3600), log2(86400), log2(31536000),
               log2(31536000) + log2(1000)},
        d \in {-1, 0, 1}}

EntropyInputs ==
    {b * Micro + f * Centi : b \in 0..MaxBits, f \in {0, 1, 50, 99}}
    \cup BandStarts
    \cup {1024 * Micro - Centi, 1024 * Micro, 1024 * Micro + Centi}

CalcCalls ==
    {[fn |-> "calculate_entropy", password |-> s, entropy |-> 0] : s \in CompositionInputs}
    \cup {[fn |-> f, password |-> <<>>, entropy |-> e] :
            f \in {"get_strength_category", "calculate_crack_time"},
            e \in EntropyInputs}

InitCalc ==
    /\ ServerVarsInit
    /\ call \in CalcCalls
    /\ ret = <<>>

\* calculate_N, calculate_entropy and analyze_composition of one string
CallComposition ==
    /\ call.fn = "calculate_entropy"
    /\ ret = <<>>
    /\ ret' = <<[keyspace |-> calculate_N(call.password),
                 entropy |-> calculate_entropy(call.password),
                 composition |-> analyze_composition(call.password)]>>
    /\ UNCHANGED <<ServerVars, call>>

CallStrength ==
    /\ call.fn = "get_strength_category"
    /\ ret = <<>>
    /\ ret' = <<get_strength_category(call.entropy)>>
    /\ UNCHANGED <<ServerVars, call>>

CallCrackTime ==
    /\ call.fn = "calculate_crack_time"
    /\ ret = <<>>
    /\ ret' = <<calculate_crack_time(call.entropy)>>
    /\ UNCHANGED <<ServerVars, call>>

NextCalc == CallComposition \/ CallStrength \/ CallCrackTime

SpecCalc == InitCalc /\ [][NextCalc]_vars

(***************************************************************************)
(* Properties of the served application (Spec)                             *)
(***************************************************************************)
\* the latest request reached evaluate_password
Evaluated == last # <<>> /\ last[1].status # 422
\* no store read made for the latest request raised
ReadsSucceeded == last[1].member_read # "failed" /\ last[1].rank_read # "failed"
ValidRequests == {p \in Requests : valid_request(p)}
\* what is_common_password would answer now, its store read succeeding
AnswerNow(p, c) == is_common_password(p, c, 0, 0, "open", TRUE).result

\* C1: every evaluation of a password whose lower-cased form is in the corpus,
\* whatever was evaluated before, returns is_common = true, score 0, entropy
\* 0.0, the in-dictionary label and a crack time in milliseconds.  (Stated for
\* the requests none of whose store reads raised: the others are excused by
\* the lookup-failure rule.)
C1_DictionaryOverride ==
    (Evaluated /\ ReadsSucceeded /\ select_exists(lower(last[1].password)))
    => /\ last[1].status = 200
       /\ last[1].evaluation.is_common
       /\ last[1].evaluation.score = 0
       /\ last[1].evaluation.entropy = 0
       /\ last[1].evaluation.strength = "Muy Debil (En Diccionario)"
       /\ last[1].evaluation.crack_time.unit = "milisegundos"

\* C2: in every reachable state two passwords with the same lower-cased form
\* get the same is_common_password answer and the same rank.
C2_CaseInsensitive ==
    phase = "serving" =>
        \A p \in ValidRequests, q \in ValidRequests :
            lower(p) = lower(q) =>
                /\ AnswerNow(p, cache) = AnswerNow(q, cache)
                /\ get_password_rank(p, DB_CONNECTION, TRUE)
                     = get_password_rank(q, DB_CONNECTION, TRUE)

\* C3: while the store failed to load or was never initialised no request is
\* accepted: startup ends in a RuntimeError, nothing is evaluated or cached,
\* and every request that is handled sees an initialised store.
C3_FailFast ==
    /\ (phase \in {"init", "failed"} => last = <<>> /\ cache = <<>> /\ hits + misses = 0)
    /\ (phase = "failed" <=> startup_error = "RuntimeError")
    /\ (phase \in {"serving", "stopped"} => DB_CONNECTION # "None")
    /\ (last # <<>> =>
            /\ last[1].conn = "open"
            /\ last[1].member_read # "unavailable")

\* C3 witness: the database file is missing, init_database returned False with
\* DB_CONNECTION None, and startup ended in the RuntimeError.
C3_Witness ==
    phase = "failed" /\ DB_CONNECTION = "None" /\ startup_error = "RuntimeError"

\* C4: a request whose membership read raises treats the password as not
\* common, and every query whose read does not raise (a later one for the same
\* password included) returns the store's real answer.
C4_FailureConfined ==
    Evaluated =>
        /\ (last[1].member_read = "failed" => ~last[1].member)
        /\ (last[1].member_read # "failed" =>
                last[1].member = select_exists(lower(last[1].password)))

\* C5: whatever the outcome of the store reads of a request, evaluate_password
\* returns an evaluation and does not raise.
C5_NeverRaises ==
    Evaluated => last[1].raised = "" /\ last[1].status = 200

\* C6: once evaluate_password has returned, no process-wide state (the keys of
\* the membership cache included) holds the submitted string.
C6_NothingRetained ==
    Evaluated => last[1].password \notin CacheKeys(cache)

\* C7: every cached entry equals the store's answer for its key, and
\* is_common_password answers the same whether the entry is cached or not.
C7_CacheTransparent ==
    /\ \A i \in 1..Len(cache) : cache[i].value = select_exists(lower(cache[i].key))
    /\ \A p \in ValidRequests : AnswerNow(p, cache) = AnswerNow(p, <<>>)

\* C11: the cache is keyed on the lower-cased input: a query for q after one
\* for p with lower(q) = lower(p) adds no second entry, so the cache holds at
\* most one entry per lower-cased string.
C11_NormalizedKey ==
    \A i \in 1..Len(cache), j \in 1..Len(cache) :
        lower(cache[i].key) = lower(cache[j].key) => i = j

\* the n most recently used arguments, and the cached key used longest ago
MostRecent(n) == {used[i] : i \in {j \in 1..Len(used) : j > Len(used) - n}}
UsePosition(k) == CHOOSE i \in 1..Len(used) : used[i] = k
LeastRecentlyUsed(c) ==
    CHOOSE k \in CacheKeys(c) : \A o \in CacheKeys(c) : UsePosition(k) <= UsePosition(o)

\* the cache never holds more than maxsize entries, get_cache_info reports its
\* size, and the cached keys are the maxsize most recently used arguments
C12_Bounded ==
    /\ Len(cache) <= maxsize
    /\ get_cache_info(cache, hits, misses).size = Cardinality(CacheKeys(cache))
    /\ get_cache_info(cache, hits, misses).size <= get_cache_info(cache, hits, misses).maxsize
    /\ get_cache_info(cache, hits, misses).hits + get_cache_info(cache, hits, misses).misses
         >= Len(used)
    /\ CacheKeys(cache) = MostRecent(maxsize)

\* a fill of the full cache evicts exactly the least recently used key (a hit
\* being a use) and takes in the new one; the counters never decrease
C12_Step ==
    /\ hits' >= hits
    /\ misses' >= misses
    /\ (misses' > misses /\ Len(cache) = maxsize) =>
            /\ CacheKeys(cache) \ CacheKeys(cache') = {LeastRecentlyUsed(cache)}
            /\ CacheKeys(cache') \ CacheKeys(cache) = {last'[1].password}
    /\ (hits' > hits) => CacheKeys(cache') = CacheKeys(cache)

\* C12: after any sequence of calls the cache holds at most maxsize entries; a
\* fill at full capacity evicts exactly the least-recently-used key, a hit
\* counting as a use; the hit and miss counters never decrease.
C12_BoundedLRU == []C12_Bounded /\ [][C12_Step]_vars

\* C12 witness: after a hit, a fill of the full cache has evicted a key.
C12_Witness ==
    /\ hits >= 1
    /\ Len(cache) = maxsize
    /\ Len(used) > maxsize
    /\ last # <<>>
    /\ last[1].member_read \in {"ok", "failed"}
    /\ used[1] \notin CacheKeys(cache)

(***************************************************************************)
(* Properties of the pure functions (SpecCalc)                             *)
(***************************************************************************)
StrengthCalled == call.fn = "get_strength_category" /\ ret # <<>>
CrackTimeCalled == call.fn = "calculate_crack_time" /\ ret # <<>>
CompositionCalled == call.fn = "calculate_entropy" /\ ret # <<>>

\* the five bands [lo, hi) in bits, the last one unbounded, with label and score
StrengthBands ==
    <<[lo |-> 0, hi |-> 40, bounded |-> TRUE, label |-> "Muy Debil"],
      [lo |-> 40, hi |-> 60, bounded |-> TRUE, label |-> "Debil"],
      [lo |-> 60, hi |-> 80, bounded |-> TRUE, label |-> "Aceptable"],
      [lo |-> 80, hi |-> 100, bounded |-> TRUE, label |-> "Fuerte"],
      [lo |-> 100, hi |-> 100, bounded |-> FALSE, label |-> "Muy Fuerte"]>>

InStrengthBand(e, b) == e >= b.lo * Micro /\ (b.bounded => e < b.hi * Micro)

\* C8: every non-negative entropy lies in exactly one of the five half-open
\* bands and gets that band's label and score 1..5; 40.0 bits is "Debil"
\* (score 2); the score never decreases when the entropy grows.
C8_StrengthBands ==
    StrengthCalled =>
        /\ Cardinality({i \in 1..5 : InStrengthBand(call.entropy, StrengthBands[i])}) = 1
        /\ \A i \in 1..5 :
              InStrengthBand(call.entropy, StrengthBands[i]) =>
                  ret[1].score = i /\ ret[1].strength = StrengthBands[i].label
        /\ (call.entropy = 40 * Micro => ret[1].score = 2 /\ ret[1].strength = "Debil")
        /\ \A e \in EntropyInputs :
              e >= call.entropy => get_strength_category(e).score >= ret[1].score

\* C8 witness: get_strength_category(40.0) returned "Debil", score 2.
C8_Witness ==
    StrengthCalled /\ call.entropy = 40 * Micro /\ ret[1].score = 2
        /\ ret[1].strength = "Debil"

\* the units from the finest to the coarsest, and the lg of the seconds at
\* which each one but the first starts (1, 60, 3600, 86400, 31536000,
\* 31536000000)
CrackUnits ==
    <<"milisegundos", "segundos", "minutos", "horas", "dias", "anios", "milenios">>
CrackStarts ==
    <<0, log2(60), log2(3600), log2(86400), log2(31536000),
      log2(31536000) + log2(1000)>>
UnitRank(u) == CHOOSE k \in 1..Len(CrackUnits) : CrackUnits[k] = u
\* lg of 2^E / (2 x 10^11)
LgSeconds(e) == e - (log2(2) + 11 * log2(10))
BandOfSeconds(sec) == 1 + Cardinality({k \in 1..Len(CrackStarts) : CrackStarts[k] <= sec})

\* C9: the unit returned is the one whose half-open range [lower, upper)
\* holds seconds = 2^E / (2 x 10^11), at the boundaries too (60.0 s is
\* "minutos"); a larger entropy has no fewer seconds and no finer unit.
C9_CrackTimeUnits ==
    (CrackTimeCalled /\ ret[1].raised = "") =>
        /\ ret[1].unit = CrackUnits[BandOfSeconds(LgSeconds(call.entropy))]
        /\ (LgSeconds(call.entropy) = log2(60) => ret[1].unit = "minutos")
        /\ \A e \in EntropyInputs :
              (e >= call.entropy /\ calculate_crack_time(e).raised = "") =>
                  /\ crack_seconds(e) >= crack_seconds(call.entropy)
                  /\ UnitRank(calculate_crack_time(e).unit) >= UnitRank(ret[1].unit)

\* C9 witness: the entropy at which seconds is exactly 60.0 returned "minutos".
C9_Witness ==
    CrackTimeCalled /\ crack_seconds(call.entropy) = log2(60)
        /\ ret[1].raised = "" /\ ret[1].unit = "minutos"

\* the character classes of a string and their fixed weights
ClassOf(c) ==
    IF c \in {LowerLetters[i] : i \in 1..Len(LowerLetters)} THEN "lowercase"
    ELSE IF c \in {UpperLetters[i] : i \in 1..Len(UpperLetters)} THEN "uppercase"
    ELSE IF c \in DigitChars THEN "digits"
    ELSE IF c \in CaselessLetters THEN "caseless"
    ELSE "symbols"
ClassWeight(k) ==
    CASE k = "lowercase" -> 26
      [] k = "uppercase" -> 26
      [] k = "digits" -> 10
      [] k = "symbols" -> 32
      [] k = "caseless" -> 0
ClassesOf(s) == {ClassOf(s[i]) : i \in 1..Len(s)} \ {"caseless"}
RECURSIVE SumWeights(_)
SumWeights(ks) ==
    IF ks = {} THEN 0
    ELSE LET k == CHOOSE x \in ks : TRUE
         IN  ClassWeight(k) + SumWeights(ks \ {k})

\* C10: the keyspace is the sum of the weights of the classes present, counted
\* once per class, and 1 when no class is present; it is never zero, the
\* entropy is never negative and is 0.0 for the empty string; a string of one
\* class has that class's weight as keyspace.
C10_Keyspace ==
    CompositionCalled =>
        LET present == ClassesOf(call.password)
        IN  /\ ret[1].keyspace = IF present = {} THEN 1 ELSE SumWeights(present)
            /\ ret[1].keyspace >= 1
            /\ ret[1].composition.keyspace = ret[1].keyspace
            /\ ret[1].entropy >= 0
            /\ (call.password = <<>> => ret[1].keyspace = 1 /\ ret[1].entropy = 0)
            /\ \A k \in present : present = {k} => ret[1].keyspace = ClassWeight(k)
            /\ calculate_N(call.password \o call.password) = ret[1].keyspace

\* C10 witness: the empty string has keyspace 1 and entropy 0.0.
C10_Witness ==
    CompositionCalled /\ call.password = <<>> /\ ret[1].keyspace = 1
        /\ ret[1].entropy = 0

\* C10 witness of a single class: three digits have keyspace 10.
C10_WitnessOneClass ==
    CompositionCalled /\ call.password = <<"1", "1", "1">> /\ ret[1].keyspace = 10

\* C13: calculate_crack_time is total over the non-negative entropies: it
\* raises nothing, and where 2^E exceeds the range of the floats it answers
\* the millennia band.
C13_CrackTimeTotal ==
    CrackTimeCalled =>
        /\ ret[1].raised = ""
        /\ pow_overflows(call.entropy) => ret[1].unit = "milenios"

====
